---- MODULE Spec2Model ----
(***************************************************************************)
(* The ECG scanpath pushdown automaton (pda.py) and the scanpath completer *)
(* (completion.py).                                                        *)
(*                                                                         *)
(* One ScanpathCompleter owns one PushdownAutomaton (self.pda).  The       *)
(* variables current_state, stack and history are the fields of that       *)
(* automaton; completion_rules is the completer's rule table.  The other   *)
(* variables record the last call made on the objects: which operation,    *)
(* its arguments and what it returned.                                     *)
(*                                                                         *)
(* A stack_operation string such as 'push:QRS:push:ExpectRepol' is kept as *)
(* the sequence of its ':'-separated parts, which is what the code's       *)
(* split(':') yields; the tests the code makes on the string ('pop:push'   *)
(* in ..., startswith('push:')) are made on the parts.                     *)
(*                                                                         *)
(* A value a method computes once and then reads several times (the rule   *)
(* found, the result of a step) is bound by a quantifier over its          *)
(* singleton set, {e : r \in {v}}, which evaluates v once.                 *)
(***************************************************************************)
EXTENDS Integers, Sequences, FiniteSets, TLC

VARIABLES
    current_state,     \* PushdownAutomaton.current_state
    stack,             \* PushdownAutomaton.stack, bottom first
    history,           \* PushdownAutomaton.history
    completion_rules,  \* ScanpathCompleter.completion_rules
    seq,               \* the list last passed to a sequence operation
    op,                \* the operation called last
    input_symbol,      \* the symbol it was given (step)
    result,            \* the boolean it returned
    out,               \* the list it returned
    iterations,        \* the last call's _generate_completion: its iterations
    unknown_abort      \* the same: it left the loop at the unknown-symbol break

vars == <<current_state, stack, history, completion_rules, seq, op,
          input_symbol, result, out, iterations, unknown_abort>>

pda_vars == <<current_state, stack, history>>

-----------------------------------------------------------------------------
(* Bounds of the model *)

\* longest sequence of arbitrary symbols a caller passes
MaxLen == 2

\* longest fully consumed scanpath a caller passes
MaxWalk == 6

\* direct step calls are made while the history is shorter than this
MaxHist == 5

\* longest 'required' list of a completion rule other than the shipped ones
MaxRequired == 1

-----------------------------------------------------------------------------
(* config.py, pda.py: the automaton's static data *)

PDA_STATES == {"qRate", "qRhythm", "qAxis", "qMorph", "qST", "qDetail", "qEnd"}

STACK_ALPHABET == {"R", "Rh", "Ax", "QRS", "ST", "ExpectRepol", "Z0"}

initial_state == "qRate"

accepting_states == {"qEnd"}

PDATransition(f, i, t, to, o) ==
    [from_state |-> f, input_symbol |-> i, stack_top |-> t,
     to_state |-> to, stack_operation |-> o]

define_transitions ==
    << PDATransition("qRate",   "R",      "Z0",  "qRhythm", <<"push", "R">>),
       PDATransition("qRate",   "Rh",     "Z0",  "qRhythm", <<"noop">>),
       PDATransition("qRhythm", "Rh",     "R",   "qAxis",   <<"pop">>),
       PDATransition("qRhythm", "Rh",     "Z0",  "qAxis",   <<"noop">>),
       PDATransition("qAxis",   "Ax",     "Z0",  "qMorph",  <<"push", "QRS">>),
       PDATransition("qAxis",   "Ax",     "R",   "qMorph",  <<"push", "QRS">>),
       PDATransition("qAxis",   "Q",      "Z0",  "qMorph",  <<"push", "QRS">>),
       PDATransition("qAxis",   "Detail", "Z0",  "qDetail",
                     <<"push", "QRS", "push", "ExpectRepol">>),
       PDATransition("qAxis",   "ST",     "Z0",  "qST",
                     <<"push", "QRS", "push", "ST">>),
       PDATransition("qAxis",   "T",      "Z0",  "qEnd",    <<"push", "QRS">>),
       PDATransition("qMorph",  "Q",      "QRS", "qMorph",  <<"noop">>),
       PDATransition("qMorph",  "Detail", "QRS", "qDetail", <<"push", "ExpectRepol">>),
       PDATransition("qDetail", "V1", "ExpectRepol", "qDetail", <<"noop">>),
       PDATransition("qDetail", "V2", "ExpectRepol", "qDetail", <<"noop">>),
       PDATransition("qDetail", "V3", "ExpectRepol", "qDetail", <<"noop">>),
       PDATransition("qDetail", "V4", "ExpectRepol", "qDetail", <<"noop">>),
       PDATransition("qDetail", "V5", "ExpectRepol", "qDetail", <<"noop">>),
       PDATransition("qDetail", "V6", "ExpectRepol", "qDetail", <<"noop">>),
       PDATransition("qDetail", "Detail", "ExpectRepol", "qDetail", <<"noop">>),
       PDATransition("qMorph",  "ST",     "QRS", "qST",     <<"push", "ST">>),
       PDATransition("qDetail", "ST", "ExpectRepol", "qST", <<"pop", "push", "ST">>),
       PDATransition("qST",     "T",      "ST",  "qEnd",    <<"pop">>),
       PDATransition("qST",     "QT",     "ST",  "qEnd",    <<"pop">>),
       PDATransition("qEnd",    "Detail", "QRS", "qDetail", <<"push", "ExpectRepol">>),
       PDATransition("qEnd",    "T",      "QRS", "qEnd",    <<"pop">>),
       PDATransition("qEnd",    "ST",     "QRS", "qST",     <<"push", "ST">>),
       PDATransition("qEnd",    "Q",      "QRS", "qEnd",    <<"pop">>),
       PDATransition("qDetail", "T",      "QRS", "qEnd",    <<"pop">>) >>

\* the table with the rule (qRhythm, Rh, Z0) popping instead of doing nothing
transitions_pop_bottom ==
    [define_transitions EXCEPT ![4].stack_operation = <<"pop">>]

\* the table with the rule (qAxis, Ax, R) written for stack top Z0, which
\* the rule before it already covers
transitions_duplicate_rule ==
    [define_transitions EXCEPT ![6].stack_top = "Z0"]

\* the table with the rule (qAxis, T, Z0) pushing nothing
transitions_axis_t_noop ==
    [define_transitions EXCEPT ![10].stack_operation = <<"noop">>]

\* the table with one more rule, (qEnd, Q, Z0), which consumes a further Q in
\* the accepting configuration
transitions_end_q_on_sentinel ==
    Append(define_transitions,
           PDATransition("qEnd", "Q", "Z0", "qEnd", <<"noop">>))

\* the table with the rule (qRhythm, Rh, R) leaving the R on the stack
transitions_rhythm_keeps_r ==
    [define_transitions EXCEPT ![3].stack_operation = <<"noop">>]

\* self.transitions
transitions == define_transitions

\* the input symbols the table mentions
TableInputs == {define_transitions[i].input_symbol : i \in DOMAIN define_transitions}

\* the symbols callers pass: the table's inputs and one symbol no rule mentions
Symbols == TableInputs \cup {"X"}

-----------------------------------------------------------------------------
(* pda.py: the automaton's methods as functions of a configuration *)

Config(s, st, h) == [current_state |-> s, stack |-> st, history |-> h]

\* reset() leaving the history as it is
reset_keeping_history == Config(initial_state, <<"Z0">>, history)

\* the configuration __init__ and reset() set
reset_config == Config(initial_state, <<"Z0">>, <<>>)

\* the indices of the rules that match (current_state, input_symbol, stack_top)
Matching(state, x, top) ==
    {i \in DOMAIN transitions :
        /\ transitions[i].from_state = state
        /\ transitions[i].input_symbol = x
        /\ transitions[i].stack_top = top}

MinOf(S) == CHOOSE i \in S : \A j \in S : i <= j

\* the element of a singleton set
TheOnly(S) == CHOOSE x \in S : TRUE

\* _find_transition: the first matching rule in table order; <<>> for None
find_transition(state, x, top) ==
    TheOnly({ IF m = {} THEN <<>> ELSE <<transitions[MinOf(m)]>>
              : m \in {Matching(state, x, top)} })

\* list.pop() under the code's guard "if self.stack"
pop(st) == IF st /= <<>> THEN SubSeq(st, 1, Len(st) - 1) ELSE st

\* 'pop:push' in stack_operation
has_pop_push(parts) ==
    \E i \in 1..(Len(parts) - 1) : parts[i] = "pop" /\ parts[i + 1] = "push"

\* stack_operation.startswith('push:')
starts_with_push(parts) == Len(parts) >= 2 /\ parts[1] = "push"

IsPushedPart(p) == p /= "" /\ p /= "push"

Reverse(s) == [i \in 1..Len(s) |-> s[Len(s) + 1 - i]]

\* the push loop running over the parts from the last to the first
pushed_symbols_reversed(parts) == Reverse(SelectSeq(Tail(parts), IsPushedPart))

\* the parts the push loop appends: parts[1:] that are neither empty nor 'push'
pushed_symbols(parts) == SelectSeq(Tail(parts), IsPushedPart)

\* the stack-operation chain of _execute_transition
apply_stack_operation(st, parts) ==
    IF parts = <<"pop">> THEN pop(st)
    ELSE IF parts = <<"noop">> THEN st
    ELSE IF has_pop_push(parts) THEN Append(pop(st), parts[Len(parts)])
    ELSE IF starts_with_push(parts) THEN st \o pushed_symbols(parts)
    ELSE st

\* the entry keeping the stack list itself instead of a copy of it: it shows
\* the stack as the transition has left it
HistoryEntry_sharing_stack(cfg, x, t) ==
    [state |-> cfg.current_state, input |-> x,
     stack_before |-> apply_stack_operation(cfg.stack, t.stack_operation),
     transition |-> t]

HistoryEntry(cfg, x, t) ==
    [state |-> cfg.current_state, input |-> x,
     stack_before |-> cfg.stack, transition |-> t]

\* _execute_transition
execute_transition(cfg, t, x) ==
    Config(t.to_state,
           apply_stack_operation(cfg.stack, t.stack_operation),
           Append(cfg.history, HistoryEntry(cfg, x, t)))

\* step(x) appending the history entry before it looks the rule up
step_records_failure(cfg, x) ==
    IF cfg.stack = <<>>
    THEN [ok |-> FALSE, config |-> cfg]
    ELSE TheOnly({
           IF t = <<>>
           THEN [ok |-> FALSE,
                 config |-> Config(cfg.current_state, cfg.stack,
                                   Append(cfg.history,
                                          HistoryEntry(cfg, x,
                                              PDATransition(cfg.current_state, x,
                                                  cfg.stack[Len(cfg.stack)],
                                                  cfg.current_state, <<"noop">>))))]
           ELSE [ok |-> TRUE, config |-> execute_transition(cfg, t[1], x)]
           : t \in {find_transition(cfg.current_state, x,
                                    cfg.stack[Len(cfg.stack)])} })

\* step(x) in cfg: the value returned and the configuration left
step(cfg, x) ==
    IF cfg.stack = <<>>
    THEN [ok |-> FALSE, config |-> cfg]
    ELSE TheOnly({
           IF t = <<>>
           THEN [ok |-> FALSE, config |-> cfg]
           ELSE [ok |-> TRUE, config |-> execute_transition(cfg, t[1], x)]
           : t \in {find_transition(cfg.current_state, x,
                                    cfg.stack[Len(cfg.stack)])} })

\* accepts() testing the state alone
accepts_state_only(cfg) == cfg.current_state \in accepting_states

\* accepts()
accepts(cfg) ==
    cfg.current_state \in accepting_states /\ cfg.stack = <<"Z0">>

\* is_incomplete() testing the stack alone
is_incomplete_stack_only(cfg) == Len(cfg.stack) > 1

\* is_incomplete()
is_incomplete(cfg) ==
    Len(cfg.stack) > 1 \/ cfg.current_state \notin accepting_states

Contains(st, sym) == \E i \in DOMAIN st : st[i] = sym

\* get_missing_tasks() testing QRS before ExpectRepol
get_missing_tasks_qrs_first(cfg) ==
    (IF Contains(cfg.stack, "QRS") THEN <<"Q", "ST", "T">> ELSE <<>>)
    \o (IF Contains(cfg.stack, "ExpectRepol") THEN <<"ST", "T">> ELSE <<>>)
    \o (IF Contains(cfg.stack, "ST") THEN <<"T">> ELSE <<>>)

\* get_missing_tasks() leaving out a task it has already listed
get_missing_tasks_deduplicated(cfg) ==
    (IF Contains(cfg.stack, "ExpectRepol") THEN <<"ST", "T">> ELSE <<>>)
    \o (IF Contains(cfg.stack, "QRS")
        THEN (IF Contains(cfg.stack, "ExpectRepol") THEN <<"Q">>
              ELSE <<"Q", "ST", "T">>)
        ELSE <<>>)
    \o (IF Contains(cfg.stack, "ST") /\ ~Contains(cfg.stack, "ExpectRepol")
           /\ ~Contains(cfg.stack, "QRS")
        THEN <<"T">> ELSE <<>>)

\* get_missing_tasks()
get_missing_tasks(cfg) ==
    (IF Contains(cfg.stack, "ExpectRepol") THEN <<"ST", "T">> ELSE <<>>)
    \o (IF Contains(cfg.stack, "QRS") THEN <<"Q", "ST", "T">> ELSE <<>>)
    \o (IF Contains(cfg.stack, "ST") THEN <<"T">> ELSE <<>>)

\* the loop of process_sequence from symbol i on: the return value and the
\* configuration left
RECURSIVE process_loop(_, _, _)
process_loop(cfg, s, i) ==
    IF i > Len(s) THEN [result |-> accepts(cfg), config |-> cfg]
    ELSE TheOnly({ IF ~r.ok THEN [result |-> FALSE, config |-> r.config]
                   ELSE process_loop(r.config, s, i + 1)
                   : r \in {step(cfg, s[i])} })

\* the loop going on after a failed step
RECURSIVE lenient_loop(_, _, _)
lenient_loop(cfg, s, i) ==
    IF i > Len(s) THEN [result |-> accepts(cfg), config |-> cfg]
    ELSE TheOnly({lenient_loop(r.config, s, i + 1) : r \in {step(cfg, s[i])}})

\* process_sequence without the early return
process_sequence_no_return(s) == lenient_loop(reset_config, s, 1)

\* process_sequence: reset(), then the loop
process_sequence(s) == process_loop(reset_config, s, 1)

-----------------------------------------------------------------------------
(* completion.py *)

max_iterations == 50

\* the table with the rule for ST requiring nothing
completion_rules_st_requires_nothing ==
    [sym \in {"ExpectRepol", "QRS", "ST", "R"} |->
        CASE sym = "ExpectRepol" ->
                [required |-> <<"ST", "T">>, optional |-> <<"QT">>,
                 leads |-> <<"V3", "V4", "V5">>]
          [] sym = "QRS" ->
                [required |-> <<"Q", "ST", "T">>, optional |-> <<"Detail">>,
                 leads |-> <<"V1", "V2", "V3">>]
          [] sym = "ST" ->
                [required |-> <<>>, optional |-> <<"QT">>, leads |-> <<>>]
          [] sym = "R" ->
                [required |-> <<"Rh", "Ax">>, optional |-> <<>>,
                 leads |-> <<"II">>]]

define_completion_rules ==
    [sym \in {"ExpectRepol", "QRS", "ST", "R"} |->
        CASE sym = "ExpectRepol" ->
                [required |-> <<"ST", "T">>, optional |-> <<"QT">>,
                 leads |-> <<"V3", "V4", "V5">>]
          [] sym = "QRS" ->
                [required |-> <<"Q", "ST", "T">>, optional |-> <<"Detail">>,
                 leads |-> <<"V1", "V2", "V3">>]
          [] sym = "ST" ->
                [required |-> <<"T">>, optional |-> <<"QT">>, leads |-> <<>>]
          [] sym = "R" ->
                [required |-> <<"Rh", "Ax">>, optional |-> <<>>,
                 leads |-> <<"II">>]]

\* complete_scanpath's replay: reset(), then step every symbol, the return
\* value of step ignored
RECURSIVE replay_loop(_, _, _)
replay_loop(cfg, s, i) ==
    IF i > Len(s) THEN cfg
    ELSE TheOnly({replay_loop(r.config, s, i + 1) : r \in {step(cfg, s[i])}})

\* the replay stopping one symbol early
replay_all_but_last(s) == replay_loop(reset_config, SubSeq(s, 1, Len(s) - 1), 1)

\* the replay stopping at the first symbol whose step fails
replay_short_circuit(s) == process_sequence(s).config

\* the replay without the reset() before it
replay_without_reset(s) ==
    replay_loop(Config(current_state, stack, history), s, 1)

replay(s) == replay_loop(reset_config, s, 1)

\* the inner loop appending a task only once its step has succeeded
RECURSIVE required_loop_drops_refused(_, _, _, _)
required_loop_drops_refused(cfg, completion, required, i) ==
    IF i > Len(required) THEN [config |-> cfg, completion |-> completion]
    ELSE TheOnly({
           IF ~r.step.ok
           THEN [config |-> r.step.config, completion |-> completion]
           ELSE required_loop_drops_refused(r.step.config, r.completion,
                                            required, i + 1)
           : r \in {[completion |-> Append(completion, required[i]),
                     step |-> step(cfg, required[i])]} })

\* the inner loop of _generate_completion over rule['required'] from task i on
RECURSIVE required_loop(_, _, _, _)
required_loop(cfg, completion, required, i) ==
    IF i > Len(required) THEN [config |-> cfg, completion |-> completion]
    ELSE TheOnly({
           IF ~r.step.ok
           THEN [config |-> r.step.config, completion |-> r.completion]
           ELSE required_loop(r.step.config, r.completion, required, i + 1)
           : r \in {[completion |-> Append(completion, required[i]),
                     step |-> step(cfg, required[i])]} })

\* the variables of the while loop of _generate_completion; exited tells that
\* the loop has been left
LoopState(cfg, completion, iters, aborted, exited) ==
    [config |-> cfg, completion |-> completion, iterations |-> iters,
     unknown_abort |-> aborted, exited |-> exited]

\* a pass letting the counter reach max_iterations before the test stops it
completion_pass_one_more(l, rules) ==
    IF l.exited
         \/ ~(Len(l.config.stack) > 1 /\ l.iterations <= max_iterations)
    THEN [l EXCEPT !.exited = TRUE]
    ELSE IF l.config.stack[Len(l.config.stack)] \in DOMAIN rules
         THEN TheOnly({
                LoopState(r.config, r.completion, l.iterations + 1, FALSE, FALSE)
                : r \in {required_loop(l.config, l.completion,
                              rules[l.config.stack[Len(l.config.stack)]].required,
                              1)} })
         ELSE LoopState(l.config, l.completion, l.iterations + 1, TRUE, TRUE)

\* a pass going on to the next iteration when the stack top has no rule
completion_pass_skips_unknown(l, rules) ==
    IF l.exited
         \/ ~(Len(l.config.stack) > 1 /\ l.iterations < max_iterations)
    THEN [l EXCEPT !.exited = TRUE]
    ELSE IF l.config.stack[Len(l.config.stack)] \in DOMAIN rules
         THEN TheOnly({
                LoopState(r.config, r.completion, l.iterations + 1, FALSE, FALSE)
                : r \in {required_loop(l.config, l.completion,
                              rules[l.config.stack[Len(l.config.stack)]].required,
                              1)} })
         ELSE LoopState(l.config, l.completion, l.iterations + 1, TRUE, FALSE)

\* a pass whose test lets the body run on a stack holding the sentinel alone
completion_pass_runs_on_sentinel(l, rules) ==
    IF l.exited
         \/ ~(Len(l.config.stack) >= 1 /\ l.iterations < max_iterations)
    THEN [l EXCEPT !.exited = TRUE]
    ELSE IF l.config.stack[Len(l.config.stack)] \in DOMAIN rules
         THEN TheOnly({
                LoopState(r.config, r.completion, l.iterations + 1, FALSE, FALSE)
                : r \in {required_loop(l.config, l.completion,
                              rules[l.config.stack[Len(l.config.stack)]].required,
                              1)} })
         ELSE LoopState(l.config, l.completion, l.iterations + 1, TRUE, TRUE)

\* one pass of the while loop of _generate_completion: its test, then its
\* body (the rule's required tasks, or the break on a symbol without a rule)
completion_pass(l, rules) ==
    IF l.exited
         \/ ~(Len(l.config.stack) > 1 /\ l.iterations < max_iterations)
    THEN [l EXCEPT !.exited = TRUE]
    ELSE IF l.config.stack[Len(l.config.stack)] \in DOMAIN rules
         THEN TheOnly({
                LoopState(r.config, r.completion, l.iterations + 1, FALSE, FALSE)
                : r \in {required_loop(l.config, l.completion,
                              rules[l.config.stack[Len(l.config.stack)]].required,
                              1)} })
         ELSE LoopState(l.config, l.completion, l.iterations + 1, TRUE, TRUE)

\* n passes of the loop in a row, taken half by half so that the evaluation
\* nests by the logarithm of n rather than by n
RECURSIVE completion_passes(_, _, _)
completion_passes(l, rules, n) ==
    IF n = 0 THEN l
    ELSE IF n = 1 THEN completion_pass(l, rules)
    ELSE TheOnly({ completion_passes(h, rules, n - (n \div 2))
                   : h \in {completion_passes(l, rules, n \div 2)} })

\* the while loop of _generate_completion: passes until one leaves the loop,
\* which the pass after the max_iterations-th does at the latest
completion_loop(cfg, rules, completion, iters) ==
    completion_passes(LoopState(cfg, completion, iters, FALSE, FALSE), rules,
                      max_iterations + 1)

\* _generate_completion
generate_completion(cfg, rules) == completion_loop(cfg, rules, <<>>, 0)

\* complete_scanpath returning the synthesized suffix alone
complete_scanpath_suffix_only(s, rules) ==
    TheOnly({
      IF accepts(replayed)
      THEN [sequence |-> s, config |-> replayed,
            iterations |-> 0, unknown_abort |-> FALSE]
      ELSE TheOnly({
             [sequence |-> g.completion, config |-> g.config,
              iterations |-> g.iterations, unknown_abort |-> g.unknown_abort]
             : g \in {generate_completion(replayed, rules)} })
      : replayed \in {replay(s)} })

\* complete_scanpath: the list returned, the configuration left and how the
\* synthesis loop ended
complete_scanpath(s, rules) ==
    TheOnly({
      IF accepts(replayed)
      THEN [sequence |-> s, config |-> replayed,
            iterations |-> 0, unknown_abort |-> FALSE]
      ELSE TheOnly({
             [sequence |-> s \o g.completion, config |-> g.config,
              iterations |-> g.iterations, unknown_abort |-> g.unknown_abort]
             : g \in {generate_completion(replayed, rules)} })
      : replayed \in {replay(s)} })

\* validate_completion: reset(), then process_sequence
validate_completion(s) == process_sequence(s)

-----------------------------------------------------------------------------
(* The sequences callers pass *)

\* the scanpaths the repository's own demos and tests run
complete_seq == <<"R", "Rh", "Ax", "Q", "ST", "T">>

incomplete_seq == <<"R", "Rh", "Ax", "Q", "Detail">>

full_examination == <<"R", "Rh", "Ax", "Q", "Detail", "ST", "T", "R">>

TestScanpaths ==
    { <<"R">>,
      <<"R", "Rh">>,
      <<"R", "Rh", "Ax">>,
      <<"R", "Rh", "Ax", "Q">>,
      <<"R", "Rh", "Ax", "Q", "ST">>,
      incomplete_seq,
      <<"R", "Rh", "Ax", "Q", "Detail", "V1", "V2">>,
      <<"R", "Rh", "Ax", "Q", "Detail", "V1", "V2", "V3">>,
      <<"R", "Rh", "Ax", "Q", "Detail", "ST">>,
      complete_seq,
      full_examination,
      <<"R", "Rh", "Ax", "Q", "Detail", "V1", "V2", "ST", "T", "R">> }

\* every sequence over S of length at most n
BoundedSeq(S, n) == UNION {[1..k -> S] : k \in 0..n}

\* the sequences of length n that the automaton consumes entirely from the
\* initial configuration, each with the configuration it reaches
RECURSIVE WalkConfigs(_)
WalkConfigs(n) ==
    IF n = 0 THEN {[walk |-> <<>>, config |-> reset_config]}
    ELSE UNION { { [walk |-> Append(c.walk, r.x), config |-> r.step.config]
                   : r \in { q \in {[x |-> y, step |-> step(c.config, y)]
                                    : y \in Symbols} : q.step.ok } }
                 : c \in WalkConfigs(n - 1) }

WalksOfLen(n) == {c.walk : c \in WalkConfigs(n)}

Walks(n) == UNION {WalksOfLen(k) : k \in 0..n}

Inputs == BoundedSeq(Symbols, MaxLen) \cup Walks(MaxWalk) \cup TestScanpaths

\* the sequences of pda.py's and completion.py's own example runs
MainScanpaths ==
    {complete_seq, incomplete_seq, <<"R", "Rh", "Ax", "Q", "Detail", "V1", "V2">>}

\* scanpaths that leave each stack top the automaton can show
RuleScanpaths ==
    { <<>>,
      <<"R">>,
      <<"R", "Rh", "Ax">>,
      <<"R", "Rh", "Ax", "Q", "ST">>,
      incomplete_seq,
      complete_seq }

\* the keys of self.completion_rules
RuleKeys == DOMAIN define_completion_rules

\* tasks a rule may require: one that is never consumed while a key is on
\* top of the stack, one that qDetail consumes without changing the stack
RuleTasks == {"Ax", "V1"}

CompletionRule(required) ==
    [required |-> required, optional |-> <<>>, leads |-> <<>>]

\* the contents self.completion_rules may be given: the shipped table, the
\* shipped table with some of its keys deleted, and every table over a
\* subset of the keys whose required lists are at most MaxRequired tasks long
RuleTables ==
    {define_completion_rules}
    \cup { [k \in D |-> define_completion_rules[k]] : D \in SUBSET RuleKeys }
    \cup UNION { [D -> {CompletionRule(r) : r \in BoundedSeq(RuleTasks, MaxRequired)}]
                 : D \in SUBSET RuleKeys }

-----------------------------------------------------------------------------
(* The calls *)

pda == Config(current_state, stack, history)

SetPda(cfg) ==
    /\ current_state' = cfg.current_state
    /\ stack' = cfg.stack
    /\ history' = cfg.history

\* the record of the call just made: the operation, the symbol it was given,
\* the boolean and the list it returned ("" / FALSE / <<>> when it has none)
Called(o, x, r, l) ==
    /\ op' = o
    /\ input_symbol' = x
    /\ result' = r
    /\ out' = l

NoSynthesis == iterations' = 0 /\ unknown_abort' = FALSE

\* PushdownAutomaton.reset()
Reset ==
    /\ SetPda(reset_config)
    /\ Called("reset", "", FALSE, <<>>)
    /\ NoSynthesis
    /\ UNCHANGED <<completion_rules, seq>>

\* PushdownAutomaton.step(x)
Step(x) ==
    /\ Len(history) < MaxHist
    /\ \E r \in {step(pda, x)} :
          /\ SetPda(r.config)
          /\ Called("step", x, r.ok, <<>>)
    /\ NoSynthesis
    /\ UNCHANGED <<completion_rules, seq>>

\* PushdownAutomaton.process_sequence(s)
ProcessSequence(s) ==
    /\ \E r \in {process_sequence(s)} :
          /\ SetPda(r.config)
          /\ Called("process_sequence", "", r.result, <<>>)
    /\ NoSynthesis
    /\ seq' = s
    /\ UNCHANGED completion_rules

\* PushdownAutomaton.accepts()
Accepts ==
    /\ Called("accepts", "", accepts(pda), <<>>)
    /\ NoSynthesis
    /\ UNCHANGED <<pda_vars, completion_rules, seq>>

\* PushdownAutomaton.is_incomplete()
IsIncomplete ==
    /\ Called("is_incomplete", "", is_incomplete(pda), <<>>)
    /\ NoSynthesis
    /\ UNCHANGED <<pda_vars, completion_rules, seq>>

\* PushdownAutomaton.get_missing_tasks()
GetMissingTasks ==
    /\ Called("get_missing_tasks", "", FALSE, get_missing_tasks(pda))
    /\ NoSynthesis
    /\ UNCHANGED <<pda_vars, completion_rules, seq>>

\* ScanpathCompleter.complete_scanpath(s)
CompleteScanpath(s) ==
    /\ \E r \in {complete_scanpath(s, completion_rules)} :
          /\ SetPda(r.config)
          /\ Called("complete_scanpath", "", FALSE, r.sequence)
          /\ iterations' = r.iterations
          /\ unknown_abort' = r.unknown_abort
    /\ seq' = s
    /\ UNCHANGED completion_rules

\* ScanpathCompleter._generate_completion(), from the engine's configuration
GenerateCompletion ==
    /\ Len(history) <= MaxHist
    /\ \E g \in {generate_completion(pda, completion_rules)} :
          /\ SetPda(g.config)
          /\ Called("_generate_completion", "", FALSE, g.completion)
          /\ iterations' = g.iterations
          /\ unknown_abort' = g.unknown_abort
    /\ UNCHANGED <<completion_rules, seq>>

\* ScanpathCompleter.validate_completion(s)
ValidateCompletion(s) ==
    /\ \E r \in {validate_completion(s)} :
          /\ SetPda(r.config)
          /\ Called("validate_completion", "", r.result, <<>>)
    /\ NoSynthesis
    /\ seq' = s
    /\ UNCHANGED completion_rules

\* the state after ScanpathCompleter() has been constructed
Constructed ==
    /\ current_state = initial_state
    /\ stack = <<"Z0">>
    /\ history = <<>>
    /\ completion_rules = define_completion_rules
    /\ op = "init"
    /\ input_symbol = ""
    /\ result = FALSE
    /\ out = <<>>
    /\ iterations = 0
    /\ unknown_abort = FALSE

-----------------------------------------------------------------------------
(* Spec: any interleaving of calls on one completer and its automaton, the *)
(* sequence arguments those of the modules' own example runs              *)

Init == Constructed /\ seq = <<>>

Next ==
    \/ Reset
    \/ \E x \in Symbols : Step(x)
    \/ Accepts
    \/ IsIncomplete
    \/ GetMissingTasks
    \/ \E s \in MainScanpaths : ProcessSequence(s)
    \/ \E s \in MainScanpaths : CompleteScanpath(s)
    \/ \E s \in MainScanpaths : ValidateCompletion(s)

Spec == Init /\ [][Next]_vars

(* SeqSpec: one caller-supplied sequence, drawn from Inputs, handed to the *)
(* sequence operations and queried afterwards; what complete_scanpath      *)
(* returned may be handed on                                               *)

SeqInit == Constructed /\ seq \in Inputs

Passed == {seq} \cup (IF op = "complete_scanpath" THEN {out} ELSE {})

SeqNext ==
    \/ \E s \in Passed : ProcessSequence(s)
    \/ \E s \in Passed : CompleteScanpath(s)
    \/ \E s \in Passed : ValidateCompletion(s)
    \/ Accepts
    \/ IsIncomplete
    \/ GetMissingTasks

SeqSpec == SeqInit /\ [][SeqNext]_vars

(* RulesSpec: a completer whose rule table has been given any content of   *)
(* RuleTables, the engine brought to a configuration by a sequence          *)
(* operation on one scanpath, and the synthesis run from there              *)

RulesInit ==
    /\ current_state = initial_state
    /\ stack = <<"Z0">>
    /\ history = <<>>
    /\ completion_rules \in RuleTables
    /\ op = "init"
    /\ input_symbol = ""
    /\ result = FALSE
    /\ out = <<>>
    /\ iterations = 0
    /\ unknown_abort = FALSE
    /\ seq \in RuleScanpaths

RulesNext ==
    \/ ProcessSequence(seq)
    \/ CompleteScanpath(seq)
    \/ GenerateCompletion

RulesSpec == RulesInit /\ [][RulesNext]_vars

-----------------------------------------------------------------------------
(* The claims *)

Top(st) == st[Len(st)]

LastEntry == history[Len(history)]

\* C1: process_sequence(['R','Rh','Ax','Q','ST','T']) returns true and leaves
\* the stack ['Z0'] and the state qEnd.
C1_CompleteSeqAccepted ==
    (op = "process_sequence" /\ seq = complete_seq)
        => (result = TRUE /\ stack = <<"Z0">> /\ current_state = "qEnd")

\* C2: complete_scanpath returns a sequence validate_completion accepts, or
\* its synthesis loop left through the unknown-symbol abort after fewer than
\* 50 iterations.
C2_CompletionValidOrAborted ==
    op = "complete_scanpath"
        => \/ validate_completion(out).result
           \/ (unknown_abort /\ iterations < max_iterations)

\* C3: in every reachable configuration the stack is non-empty with Z0 at the
\* bottom and nowhere else; every rule that pops (pop, pop-then-push) asks
\* for a stack top other than Z0 and no rule pushes Z0.
C3_SentinelKept ==
    /\ stack /= <<>>
    /\ stack[1] = "Z0"
    /\ \A i \in 2..Len(stack) : stack[i] /= "Z0"
    /\ \A i \in DOMAIN transitions :
          /\ transitions[i].stack_operation[1] = "pop"
                => transitions[i].stack_top /= "Z0"
          /\ ~Contains(transitions[i].stack_operation, "Z0")

\* a pop has just emptied the stack down to the sentinel
C3_Witness ==
    /\ history /= <<>>
    /\ LastEntry.transition.stack_operation = <<"pop">>
    /\ stack = <<"Z0">>

\* C4: accepts() returns true exactly when the state is qEnd and the stack
\* is ['Z0'].
C4_AcceptsIffEndAndSentinel ==
    op = "accepts"
        => (result <=> (current_state = "qEnd" /\ stack = <<"Z0">>))

\* accepts() answered false in qEnd with QRS left above the sentinel
C4_Witness ==
    /\ op = "accepts"
    /\ current_state = "qEnd"
    /\ stack = <<"Z0", "QRS">>
    /\ result = FALSE

\* C5: if process_sequence(s) returns true, complete_scanpath(s) returns s
\* itself and the synthesis loop is not entered.
C5_AcceptedReturnedUnchanged ==
    (op = "complete_scanpath" /\ process_sequence(seq).result)
        => (out = seq /\ iterations = 0)

\* complete_scanpath was given a sequence that process_sequence accepts
C5_Witness ==
    /\ op = "complete_scanpath"
    /\ process_sequence(seq).result
    /\ seq /= <<>>
    /\ out = seq

\* C6: at most one rule matches any (state, input symbol, stack top), exactly
\* one matches each triple the table lists, and step never has two rules to
\* choose from.
C6_Deterministic ==
    /\ op = "init" =>
          \A s \in PDA_STATES, x \in Symbols, top \in STACK_ALPHABET :
              Cardinality(Matching(s, x, top)) <= 1
    /\ \A i \in DOMAIN transitions :
          Matching(transitions[i].from_state, transitions[i].input_symbol,
                   transitions[i].stack_top) = {i}
    /\ \A x \in Symbols : Cardinality(Matching(current_state, x, Top(stack))) <= 1

\* step has just applied a rule, the only one for its triple
C6_Witness ==
    /\ op = "step"
    /\ result = TRUE
    /\ Cardinality(Matching(LastEntry.state, LastEntry.input,
                            Top(LastEntry.stack_before))) = 1

\* C7: a step(x) that finds no rule for (state, x, stack top) returns false
\* and leaves state, stack and history as they were.
C7_FailedStepChangesNothing ==
    [][op' = "step" =>
          \A x \in Symbols :
              (find_transition(current_state, x, Top(stack)) = <<>> /\ Step(x))
                  => (result' = FALSE /\ UNCHANGED pda_vars)]_vars

\* step was refused for a symbol outside the alphabet, after some steps
C7_Witness ==
    /\ op = "step"
    /\ result = FALSE
    /\ input_symbol = "X"
    /\ history /= <<>>

\* the symbols a push operation lists: every second part
Listed(parts) == [k \in 1..(Len(parts) \div 2) |-> parts[2 * k]]

\* the stack the claim gives after an operation
ClaimedStack(st, parts) ==
    CASE parts = <<"pop">>  -> SubSeq(st, 1, Len(st) - 1)
      [] parts = <<"noop">> -> st
      [] parts[1] = "pop" /\ Len(parts) > 1 ->
            [st EXCEPT ![Len(st)] = parts[Len(parts)]]
      [] OTHER -> st \o Listed(parts)

RuleIs(t, f, x, top) ==
    t.from_state = f /\ t.input_symbol = x /\ t.stack_top = top

\* C8: a step(x) that finds a rule returns true, moves to the rule's target
\* state and changes the stack by the rule's operation: pop removes the top,
\* noop nothing, push appends the listed symbols in order, pop-then-push
\* replaces the top.
C8_StepAppliesTransition ==
    [][op' = "step" =>
        \A x \in Symbols : \A i \in DOMAIN transitions :
          (RuleIs(transitions[i], current_state, x, Top(stack)) /\ Step(x))
              => /\ result' = TRUE
                 /\ current_state' = transitions[i].to_state
                 /\ stack' = ClaimedStack(stack, transitions[i].stack_operation)
                 /\ RuleIs(transitions[i], "qAxis", "Detail", "Z0")
                       => stack' = <<"Z0", "QRS", "ExpectRepol">>
                 /\ RuleIs(transitions[i], "qAxis", "ST", "Z0")
                       => stack' = <<"Z0", "QRS", "ST">>
                 /\ (RuleIs(transitions[i], "qDetail", "ST", "ExpectRepol")
                       /\ stack = <<"Z0", "QRS", "ExpectRepol">>)
                       => stack' = <<"Z0", "QRS", "ST">>]_vars

\* step has just replaced ExpectRepol by ST
C8_Witness ==
    /\ op = "step"
    /\ result = TRUE
    /\ input_symbol = "ST"
    /\ LastEntry.state = "qDetail"
    /\ LastEntry.stack_before = <<"Z0", "QRS", "ExpectRepol">>
    /\ stack = <<"Z0", "QRS", "ST">>

\* C9: process_sequence(s) resets, steps the symbols of s in order, returns
\* false at the first failed step without stepping a later symbol, leaving
\* what the consumed prefix reached, and returns accepts() if none fails.
C9_ProcessSequenceShortCircuits ==
    op = "process_sequence" =>
        /\ Len(history) <= Len(seq)
        /\ \A i \in 1..Len(history) : history[i].input = seq[i]
        /\ history /= <<>> =>
              /\ history[1].state = "qRate"
              /\ history[1].stack_before = <<"Z0">>
              /\ current_state = LastEntry.transition.to_state
        /\ history = <<>> => (current_state = "qRate" /\ stack = <<"Z0">>)
        /\ Len(history) < Len(seq) =>
              /\ result = FALSE
              /\ find_transition(current_state, seq[Len(history) + 1],
                                 Top(stack)) = <<>>
        /\ Len(history) = Len(seq) =>
              (result <=> (current_state = "qEnd" /\ stack = <<"Z0">>))

\* process_sequence stopped at 'X' and did not step the 'R' after it
C9_Witness ==
    /\ op = "process_sequence"
    /\ seq = <<"X", "R">>
    /\ result = FALSE
    /\ history = <<>>

InputsOf(h) == [i \in 1..Len(h) |-> h[i].input]

\* C10: process_sequence(['R','Rh','Ax','Q','Detail']) returns false, the
\* stack after the successive symbols is [Z0,R], [Z0], [Z0,QRS], [Z0,QRS],
\* [Z0,QRS,ExpectRepol], and get_missing_tasks() then returns
\* ['ST','T','Q','ST','T'].
C10_IncompleteSeqRun ==
    /\ (op = "process_sequence" /\ seq = incomplete_seq) =>
          /\ result = FALSE
          /\ Len(history) = 5
          /\ history[2].stack_before = <<"Z0", "R">>
          /\ history[3].stack_before = <<"Z0">>
          /\ history[4].stack_before = <<"Z0", "QRS">>
          /\ history[5].stack_before = <<"Z0", "QRS">>
          /\ stack = <<"Z0", "QRS", "ExpectRepol">>
    /\ (op = "get_missing_tasks" /\ InputsOf(history) = incomplete_seq) =>
          out = <<"ST", "T", "Q", "ST", "T">>

\* get_missing_tasks() was asked after the run of that sequence
C10_Witness ==
    /\ op = "get_missing_tasks"
    /\ seq = incomplete_seq
    /\ InputsOf(history) = incomplete_seq
    /\ out = <<"ST", "T", "Q", "ST", "T">>

\* C11: complete_scanpath(partial) returns partial followed by the
\* synthesized suffix: partial is a prefix of the result, symbol for symbol
\* and in order, the result is never shorter than partial, and the list the
\* caller passed is what it was.
C11_PartialIsPrefix ==
    [][\A s \in Passed :
          (op' = "complete_scanpath" /\ CompleteScanpath(s))
              => /\ Len(out') >= Len(s)
                 /\ \A i \in 1..Len(s) : out'[i] = s[i]
                 /\ seq' = s]_vars

\* complete_scanpath has appended a suffix to a non-empty partial sequence
C11_Witness ==
    /\ op = "complete_scanpath"
    /\ seq /= <<>>
    /\ Len(out) > Len(seq)
    /\ SubSeq(out, 1, Len(seq)) = seq

\* the configuration reached by stepping every symbol of s from the initial
\* configuration, a failed step leaving the configuration as it was
IgnoringFailures(s) == lenient_loop(reset_config, s, 1).config

\* C12: the replay inside complete_scanpath skips a symbol whose step fails
\* and still steps every later symbol, and synthesis starts from the
\* configuration so reached; partial ['X','R'] replays to qRhythm with stack
\* [Z0,R], whereas process_sequence(['X','R']) stops in qRate with [Z0].
C12_ReplayIgnoresFailures ==
    /\ op = "complete_scanpath" =>
          \A c \in {IgnoringFailures(seq)} :
              /\ Len(history) >= Len(c.history)
              /\ SubSeq(history, 1, Len(c.history)) = c.history
              /\ Len(history) > Len(c.history) =>
                    /\ history[Len(c.history) + 1].state = c.current_state
                    /\ history[Len(c.history) + 1].stack_before = c.stack
              /\ Len(history) = Len(c.history) =>
                    (current_state = c.current_state /\ stack = c.stack)
    /\ (op = "complete_scanpath" /\ seq = <<"X", "R">>) =>
          /\ Len(history) >= 2
          /\ history[1].input = "R"
          /\ history[1].state = "qRate"
          /\ history[2].state = "qRhythm"
          /\ history[2].stack_before = <<"Z0", "R">>
    /\ (op = "process_sequence" /\ seq = <<"X", "R">>) =>
          (current_state = "qRate" /\ stack = <<"Z0">> /\ history = <<>>)

\* complete_scanpath(['X','R']) stepped 'R' after the refused 'X' and began
\* its synthesis in qRhythm with [Z0,R]
C12_Witness ==
    /\ op = "complete_scanpath"
    /\ seq = <<"X", "R">>
    /\ history /= <<>>
    /\ history[1].input = "R"
    /\ Len(history) >= 2
    /\ history[2].stack_before = <<"Z0", "R">>

Range(s) == {s[i] : i \in DOMAIN s}

\* C13: _generate_completion terminates whatever configuration it starts
\* from and whatever the rule table holds, a rule whose required task is
\* never consumed under its stack symbol included: the outer loop runs at
\* most 50 times and the buffer filled so far is returned.
C13_SynthesisCapped ==
    op \in {"_generate_completion", "complete_scanpath"} =>
        /\ iterations <= 50
        /\ unknown_abort => Top(stack) \notin DOMAIN completion_rules
        /\ op = "_generate_completion" =>
              /\ \A i \in DOMAIN out :
                    \E k \in DOMAIN completion_rules :
                        out[i] \in Range(completion_rules[k].required)
              /\ (\A k \in DOMAIN completion_rules :
                        completion_rules[k].required /= <<>>)
                    => Len(out) >= iterations - (IF unknown_abort THEN 1 ELSE 0)
              /\ (iterations < 50 /\ ~unknown_abort) => Len(stack) = 1

\* the rule for R requires 'Ax', which is never consumed with R on top: the
\* loop ran its 50 iterations and returned the 50 tasks it had buffered
C13_Witness ==
    /\ op = "_generate_completion"
    /\ "R" \in DOMAIN completion_rules
    /\ completion_rules["R"].required = <<"Ax">>
    /\ stack = <<"Z0", "R">>
    /\ iterations = 50
    /\ Len(out) = 50
    /\ Range(out) = {"Ax"}

\* every symbol of s is consumed from the initial configuration
AllConsumed(s) == Len(process_sequence(s).config.history) = Len(s)

\* the scanpaths the test lists as incomplete
TestIncomplete ==
    { <<"R">>,
      <<"R", "Rh", "Ax">>,
      <<"R", "Rh", "Ax", "Q">>,
      incomplete_seq,
      <<"R", "Rh", "Ax", "Q", "Detail", "V1", "V2">>,
      <<"R", "Rh", "Ax", "Q", "Detail", "ST">> }

\* C14: for the incomplete scanpaths of the test, and for every partial
\* sequence that is consumed entirely and leaves more than one stack entry,
\* an automaton that runs process_sequence on what complete_scanpath
\* returned then has accepts() true and a stack of length 1.
C14_CompletionMeetsTestCriterion ==
    (/\ op = "complete_scanpath"
     /\ \/ seq \in TestIncomplete
        \/ (AllConsumed(seq) /\ Len(process_sequence(seq).config.stack) > 1))
        => \A checked \in {process_sequence(out).config} :
              accepts(checked) /\ Len(checked.stack) = 1

\* complete_scanpath has completed a consumed partial sequence that left
\* QRS and ExpectRepol on the stack
C14_Witness ==
    /\ op = "complete_scanpath"
    /\ seq = incomplete_seq
    /\ AllConsumed(seq)
    /\ process_sequence(seq).config.stack = <<"Z0", "QRS", "ExpectRepol">>
    /\ Len(out) > Len(seq)
    /\ accepts(process_sequence(out).config)

\* the canonical examination with the two leads of the test's fourth case
canonical_with_leads ==
    <<"R", "Rh", "Ax", "Q", "Detail", "V1", "V2", "ST", "T", "R">>

\* C15: for every incomplete scanpath the test lists, a prefix of the
\* canonical examination, complete_scanpath returns exactly the canonical
\* examination R, Rh, Ax, Q, Detail, ST, T, R (with V1, V2 after Detail when
\* the input contains them).
C15_CompletesToCanonical ==
    (op = "complete_scanpath" /\ seq \in TestIncomplete)
        => out = (IF "V1" \in Range(seq) THEN canonical_with_leads
                  ELSE full_examination)

\* C16: the full examination R, Rh, Ax, Q, Detail, ST, T, R is a complete
\* scanpath: process_sequence accepts it and complete_scanpath returns it
\* with nothing appended.
C16_FullExaminationComplete ==
    seq = full_examination =>
        /\ op = "process_sequence" => result = TRUE
        /\ op = "complete_scanpath" => out = full_examination

\* the list the claim gives for each set of open obligations on the stack
MissingFor(present) ==
    CASE present = {} -> <<>>
      [] present = {"ExpectRepol"} -> <<"ST", "T">>
      [] present = {"QRS"} -> <<"Q", "ST", "T">>
      [] present = {"ST"} -> <<"T">>
      [] present = {"ExpectRepol", "QRS"} -> <<"ST", "T", "Q", "ST", "T">>
      [] present = {"ExpectRepol", "ST"} -> <<"ST", "T", "T">>
      [] present = {"QRS", "ST"} -> <<"Q", "ST", "T", "T">>
      [] present = {"ExpectRepol", "QRS", "ST"} ->
            <<"ST", "T", "Q", "ST", "T", "T">>

\* C17: get_missing_tasks() changes neither state, stack nor history, and
\* what it returns depends only on which of ExpectRepol, QRS, ST occur in the
\* stack: [ST,T], [Q,ST,T], [T] for those present, concatenated in that
\* order with repeated tasks kept (QRS and ST give [Q,ST,T,T]).
C17_MissingTasksPureQuery ==
    [][op' = "get_missing_tasks" =>
          /\ UNCHANGED pda_vars
          /\ out' = MissingFor(Range(stack) \cap {"ExpectRepol", "QRS", "ST"})]_vars

\* get_missing_tasks() was asked with QRS and ST on the stack
C17_Witness ==
    /\ op = "get_missing_tasks"
    /\ stack = <<"Z0", "QRS", "ST">>
    /\ out = <<"Q", "ST", "T", "T">>

\* C18: after process_sequence(s), get_missing_tasks() returns an empty
\* list exactly when the scanpath is complete: an empty list goes with
\* accepts() true, a non-empty one with accepts() false.
C18_EmptyMissingIffAccepted ==
    [][(op = "process_sequence" /\ op' = "get_missing_tasks")
          => ((out' = <<>>) <=> accepts(pda))]_vars

\* the code's name of a state of the specification's table
CodeState ==
    [Rate |-> "qRate", Rhythm |-> "qRhythm", Axis |-> "qAxis",
     Morph |-> "qMorph", Detail |-> "qDetail", ST |-> "qST", End |-> "qEnd"]

\* a row of the table: From, Input, St, To, and Op as the number of entries
\* popped and the symbols pushed after that
Row(from, input, st, to, pops, pushes) ==
    [from |-> CodeState[from], input |-> input, st |-> st,
     to |-> CodeState[to], pops |-> pops, pushes |-> pushes]

\* the transition table of section 4.1, the row V1..V6 written as six
Section41Rows ==
    { Row("Rate",   "R",      "Z0",  "Rhythm", 0, <<"R">>),
      Row("Rate",   "Rh",     "Z0",  "Rhythm", 0, <<>>),
      Row("Rhythm", "Rh",     "R",   "Axis",   1, <<>>),
      Row("Rhythm", "Rh",     "Z0",  "Axis",   0, <<>>),
      Row("Axis",   "Ax",     "Z0",  "Morph",  0, <<"QRS">>),
      Row("Axis",   "Ax",     "R",   "Morph",  0, <<"QRS">>),
      Row("Axis",   "Q",      "Z0",  "Morph",  0, <<"QRS">>),
      Row("Axis",   "Detail", "Z0",  "Detail", 0, <<"QRS", "ExpectRepol">>),
      Row("Axis",   "ST",     "Z0",  "ST",     0, <<"QRS", "ST">>),
      Row("Axis",   "T",      "Z0",  "End",    0, <<"QRS">>),
      Row("Morph",  "Q",      "QRS", "Morph",  0, <<>>),
      Row("Morph",  "Detail", "QRS", "Detail", 0, <<"ExpectRepol">>),
      Row("Detail", "Detail", "ExpectRepol", "Detail", 0, <<>>),
      Row("Morph",  "ST",     "QRS", "ST",     0, <<"ST">>),
      Row("Detail", "ST",     "ExpectRepol", "ST", 1, <<"ST">>),
      Row("ST",     "T",      "ST",  "End",    1, <<>>),
      Row("ST",     "QT",     "ST",  "End",    1, <<>>),
      Row("End",    "Detail", "QRS", "Detail", 0, <<"ExpectRepol">>),
      Row("End",    "T",      "QRS", "End",    1, <<>>),
      Row("End",    "ST",     "QRS", "ST",     0, <<"ST">>),
      Row("End",    "Q",      "QRS", "End",    1, <<>>),
      Row("Detail", "T",      "QRS", "End",    1, <<>>) }
    \cup { Row("Detail", v, "ExpectRepol", "Detail", 0, <<>>)
           : v \in {"V1", "V2", "V3", "V4", "V5", "V6"} }

RowsFor(state, x, top) ==
    {r \in Section41Rows : r.from = state /\ r.input = x /\ r.st = top}

\* the stack a row leaves
RowStack(st, r) == SubSeq(st, 1, Len(st) - r.pops) \o r.pushes

\* a configuration in the given state with the given symbol on top
Probe(state, top) ==
    Config(state, IF top = "Z0" THEN <<"Z0">> ELSE <<"Z0", top>>, <<>>)

\* C19: the engine's transition relation is the table of section 4.1 with
\* V1..V6 expanded: step succeeds on (state, input, stack top) iff the table
\* has a row for it, and then reaches that row's target state and stack;
\* the engine has no transition the table lacks and lacks none it has.
C19_TableIsTransitionRelation ==
    /\ \A state \in PDA_STATES, x \in Symbols, top \in STACK_ALPHABET :
          \A r \in {step(Probe(state, top), x)} :
              /\ r.ok <=> RowsFor(state, x, top) /= {}
              /\ \A row \in RowsFor(state, x, top) :
                    /\ r.config.current_state = row.to
                    /\ r.config.stack = RowStack(Probe(state, top).stack, row)
    /\ [][op' = "step" =>
            /\ result' <=> RowsFor(current_state, input_symbol', Top(stack)) /= {}
            /\ \A row \in RowsFor(current_state, input_symbol', Top(stack)) :
                  /\ current_state' = row.to
                  /\ stack' = RowStack(stack, row)]_vars

\* step has consumed V3, one of the six expanded rows, in qDetail
C19_Witness ==
    /\ op = "step"
    /\ result = TRUE
    /\ input_symbol = "V3"
    /\ LastEntry.state = "qDetail"
    /\ LastEntry.stack_before = <<"Z0", "QRS", "ExpectRepol">>
    /\ current_state = "qDetail"
    /\ stack = <<"Z0", "QRS", "ExpectRepol">>

\* C20: is_incomplete() returns true exactly when the stack has more than
\* one entry or the state is not qEnd, and in every reachable configuration
\* it is the negation of accepts().
C20_IncompleteIffNotAccepted ==
    /\ is_incomplete(pda) <=> ~accepts(pda)
    /\ op = "is_incomplete" =>
          /\ result <=> (Len(stack) > 1 \/ current_state /= "qEnd")
          /\ result <=> ~(current_state = "qEnd" /\ stack = <<"Z0">>)

\* is_incomplete() answered true with the sentinel alone on the stack, the
\* state not being qEnd
C20_Witness ==
    /\ op = "is_incomplete"
    /\ result = TRUE
    /\ stack = <<"Z0">>
    /\ current_state = "qAxis"

\* what a completer constructed for this one call returns for s
FreshCompletion(s) ==
    TheOnly({ IF accepts(c) THEN s
              ELSE s \o generate_completion(c, define_completion_rules).completion
              : c \in {IgnoringFailures(s)} })

\* C21: what validate_completion(seq) and complete_scanpath(seq) return
\* depends on seq alone, not on the calls made before on the same
\* completer: validate_completion(seq) is process_sequence(seq) of a newly
\* constructed automaton, complete_scanpath(seq) what a new completer
\* returns, whatever configuration the shared engine was left in.
C21_ResultsDependOnSeqOnly ==
    /\ op = "validate_completion" =>
          \A fresh \in {process_loop(reset_config, seq, 1)} :
              result = fresh.result /\ pda = fresh.config
    /\ op = "complete_scanpath" => out = FreshCompletion(seq)

\* validate_completion ran on the list an earlier complete_scanpath of the
\* same completer had returned, that call having left the engine in qEnd
C21_Witness ==
    /\ op = "validate_completion"
    /\ seq = <<"R", "Rh", "Ax", "Q", "ST", "T", "Q", "ST">>
    /\ result = FALSE
    /\ Len(history) = 7

\* C22: from any configuration reset() gives state qRate, stack [Z0] and an
\* empty history, and a second reset() right after it gives that same
\* configuration again.
C22_ResetIdempotent ==
    op = "reset" =>
        /\ current_state = "qRate"
        /\ stack = <<"Z0">>
        /\ history = <<>>
        /\ reset_config = pda

\* reset() was called on an engine that a sequence operation had used
C22_Witness ==
    /\ op = "reset"
    /\ seq = incomplete_seq
    /\ current_state = "qRate"
    /\ history = <<>>

\* the suffix the claim gives for a configuration the replay leaves
SuffixFor(state, st) ==
    CASE state = "qRhythm" /\ st = <<"Z0", "R">> ->
            <<"Rh", "Ax", "Q", "ST", "T", "Q", "ST">>
      [] state = "qMorph" /\ st = <<"Z0", "QRS">> ->
            <<"Q", "ST", "T", "Q", "ST">>
      [] state = "qDetail" /\ st = <<"Z0", "QRS", "ExpectRepol">> ->
            <<"ST", "T", "Q", "ST">>
      [] state = "qST" /\ st = <<"Z0", "QRS", "ST">> -> <<"T", "Q", "ST">>
      [] state = "qEnd" /\ st = <<"Z0", "QRS">> -> <<"Q", "ST">>
      [] OTHER -> <<"no suffix claimed">>

FirstRequiredRefused(c) ==
    /\ Len(c.stack) > 1
    /\ Top(c.stack) \in DOMAIN completion_rules
    /\ completion_rules[Top(c.stack)].required /= <<>>
    /\ find_transition(c.current_state,
                       completion_rules[Top(c.stack)].required[1],
                       Top(c.stack)) = <<>>

FirstRequired(c) == completion_rules[Top(c.stack)].required[1]

Copies(x, n) == [i \in 1..n |-> x]

AfterPasses(c, n) ==
    completion_passes(LoopState(c, <<>>, 0, FALSE, FALSE), completion_rules, n)

\* C25: when the stack top at the start of an iteration has no entry in the
\* rule table, the loop ends in that iteration, nothing is appended and no
\* step is made: complete_scanpath returns partial and what the earlier
\* iterations buffered, a plain list.
C25_UnknownSymbolEndsLoop ==
    [][/\ (/\ op' = "_generate_completion"
           /\ Len(stack) > 1
           /\ Top(stack) \notin DOMAIN completion_rules) =>
            /\ UNCHANGED pda_vars
            /\ out' = <<>>
            /\ iterations' = 1
            /\ unknown_abort' = TRUE
       /\ (op' = "complete_scanpath" /\ unknown_abort') =>
            /\ Len(stack') > 1
            /\ Top(stack') \notin DOMAIN completion_rules
            /\ iterations' >= 1
            /\ \A before \in {AfterPasses(IgnoringFailures(seq'), iterations' - 1)} :
                  /\ out' = seq' \o before.completion
                  /\ current_state' = before.config.current_state
                  /\ stack' = before.config.stack
                  /\ history' = before.config.history]_vars

\* with the shipped rule for R alone, complete_scanpath(['R']) buffered
\* Rh, Ax in its first iteration and ended in the second on QRS
C25_Witness ==
    /\ op = "complete_scanpath"
    /\ seq = <<"R">>
    /\ DOMAIN completion_rules = {"R"}
    /\ unknown_abort = TRUE
    /\ iterations = 2
    /\ out = <<"R", "Rh", "Ax">>
    /\ stack = <<"Z0", "QRS">>
    /\ Len(history) = 3

C27_AcceptsAfterRunIsVerdict ==
    [][(op = "process_sequence" /\ op' = "accepts") => result' = result]_vars

\* the state and stack that follow entry i of the history
RecordedAfter(i) ==
    IF i < Len(history)
    THEN <<history[i + 1].state, history[i + 1].stack_before>>
    ELSE <<current_state, stack>>

\* C28: the history is append-only between resets and mirrors the run: a
\* successful step adds one entry, a failed step and the queries accepts,
\* is_incomplete, get_missing_tasks add none; an entry holds the state, the
\* input and the stack from just before its transition and stays as it was
\* written; its transition applied to what it records gives what the next
\* entry records.
C28_HistoryMirrorsRun ==
    /\ [](/\ history /= <<>> =>
                (/\ history[1].state = "qRate"
                 /\ history[1].stack_before = <<"Z0">>)
          /\ \A i \in DOMAIN history :
                /\ RuleIs(history[i].transition, history[i].state,
                          history[i].input, Top(history[i].stack_before))
                /\ RecordedAfter(i) =
                      <<history[i].transition.to_state,
                        ClaimedStack(history[i].stack_before,
                                     history[i].transition.stack_operation)>>)
    /\ [][/\ (op' = "step" /\ result') =>
                /\ Len(history') = Len(history) + 1
                /\ SubSeq(history', 1, Len(history)) = history
                /\ history'[Len(history')].state = current_state
                /\ history'[Len(history')].input = input_symbol'
                /\ history'[Len(history')].stack_before = stack
          /\ (op' = "step" /\ ~result') => history' = history
          /\ op' \in {"accepts", "is_incomplete", "get_missing_tasks"} =>
                history' = history
          /\ op' = "reset" => history' = <<>>]_vars

\* after three successful steps the second entry still shows [Z0,R], the
\* stack that the later pop and push have since changed
C28_Witness ==
    /\ op = "step"
    /\ result = TRUE
    /\ Len(history) = 3
    /\ history[2].stack_before = <<"Z0", "R">>
    /\ history[3].stack_before = <<"Z0">>
    /\ stack = <<"Z0", "QRS">>


\* the nine configurations (state, stack) the engine is said to stay within
NineConfigurations ==
    { <<"qRate",   <<"Z0">>>>,
      <<"qRhythm", <<"Z0">>>>,
      <<"qRhythm", <<"Z0", "R">>>>,
      <<"qAxis",   <<"Z0">>>>,
      <<"qMorph",  <<"Z0", "QRS">>>>,
      <<"qDetail", <<"Z0", "QRS", "ExpectRepol">>>>,
      <<"qST",     <<"Z0", "QRS", "ST">>>>,
      <<"qEnd",    <<"Z0", "QRS">>>>,
      <<"qEnd",    <<"Z0">>>> }

\* the configurations one step() takes the configuration c to, over every
\* input symbol, those of the table and one outside it
Successors(c) ==
    { <<r.config.current_state, r.config.stack>> :
        r \in { step(Config(c[1], c[2], <<>>), x) : x \in Symbols } }

\* C29: every reachable configuration is one of the nine listed; the nine
\* are closed under step() for every input symbol, so the bound holds for
\* input of any length; the stack is never deeper than 3 and holds only the
\* symbols Z0, R, QRS, ExpectRepol and ST
C29_NineConfigurations ==
    /\ <<current_state, stack>> \in NineConfigurations
    /\ <<initial_state, <<"Z0">>>> \in NineConfigurations
    /\ \A c \in NineConfigurations : Successors(c) \subseteq NineConfigurations
    /\ Len(stack) <= 3
    /\ Range(stack) \subseteq {"Z0", "R", "QRS", "ExpectRepol", "ST"}
    /\ \A i \in DOMAIN history :
         /\ <<history[i].state, history[i].stack_before>> \in NineConfigurations
         /\ Len(history[i].stack_before) <= 3

\* a run that has reached the deepest stack, in qST on [Z0, QRS, ST], by
\* step() calls
C29_Witness ==
    /\ op = "step"
    /\ result = TRUE
    /\ current_state = "qST"
    /\ stack = <<"Z0", "QRS", "ST">>
    /\ Len(stack) = 3
    /\ Len(history) >= 3


\* the list without its last symbol
ButLast(s) == SubSeq(s, 1, Len(s) - 1)

NothingRefused(c, l) ==
    Len(l.config.history) - Len(c.history) = Len(l.completion)

\* C31: with the shipped tables, whenever the replay leaves more than one
\* stack entry the synthesis loop ends within 3 iterations and appends at
\* most 7 symbols, stays below the cap of 50 iterations, finds a rule for the
\* stack top of every iteration, never starts an iteration after one that
\* was refused a task or left the configuration as it found it, and leaves
\* the engine in the accepting configuration qEnd with stack [Z0].
C31_SynthesisEndsWithinThreeIterations ==
    (op = "complete_scanpath" /\ completion_rules = define_completion_rules) =>
        \A c \in {IgnoringFailures(seq)} :
            Len(c.stack) > 1 =>
                /\ iterations \in 1..3
                /\ Len(out) - Len(seq) \in 1..7
                /\ iterations < max_iterations
                /\ ~unknown_abort
                /\ \A k \in 0..(iterations - 1) :
                     \A l \in {AfterPasses(c, k)} :
                        /\ ~l.exited
                        /\ Len(l.config.stack) > 1
                        /\ Top(l.config.stack) \in DOMAIN completion_rules
                /\ \A k \in 1..(iterations - 1) :
                     \A l \in {AfterPasses(c, k)} :
                        /\ NothingRefused(c, l)
                        /\ <<l.config.current_state, l.config.stack>> /=
                             <<AfterPasses(c, k - 1).config.current_state,
                               AfterPasses(c, k - 1).config.stack>>
                /\ AfterPasses(c, iterations).config = pda
                /\ current_state = "qEnd"
                /\ stack = <<"Z0">>
                /\ accepts(pda)

\* complete_scanpath(['R']) took the longest synthesis: 3 iterations and 7
\* appended symbols from qRhythm with stack [Z0, R]
C31_Witness ==
    /\ op = "complete_scanpath"
    /\ seq = <<"R">>
    /\ IgnoringFailures(seq).stack = <<"Z0", "R">>
    /\ iterations = 3
    /\ Len(out) = Len(seq) + 7
    /\ current_state = "qEnd"
    /\ stack = <<"Z0">>


\* the accepting configuration
AcceptingConfiguration(h) == Config("qEnd", <<"Z0">>, h)

\* some proper prefix of s is a sequence process_sequence accepts
ExtendsAccepted(s) ==
    \E k \in 0..(Len(s) - 1) : process_sequence(SubSeq(s, 1, k)).result

\* C32: no step succeeds from the accepting configuration qEnd/[Z0] for any
\* input symbol, so process_sequence returns false for every sequence that
\* extends an accepted one, stopping at the first added symbol with the
\* engine left in qEnd/[Z0], and no accepted sequence has an accepted proper
\* prefix.
C32_AcceptingConfigurationAbsorbing ==
    /\ \A x \in Symbols :
         \A r \in {step(AcceptingConfiguration(<<>>), x)} :
            ~r.ok /\ r.config = AcceptingConfiguration(<<>>)
    /\ \A x \in Symbols : find_transition("qEnd", x, "Z0") = <<>>
    /\ (op = "process_sequence" /\ result) =>
          /\ pda = AcceptingConfiguration(history)
          /\ ~ExtendsAccepted(seq)
          /\ \A x \in Symbols :
                \A r \in {process_sequence(Append(seq, x))} :
                    ~r.result /\ r.config = pda
    /\ (op = "process_sequence" /\ ExtendsAccepted(seq)) =>
          /\ ~result
          /\ pda = AcceptingConfiguration(history)
          /\ Len(history) < Len(seq)

\* process_sequence refused a sequence that extends an accepted one by one
\* symbol: the list complete_scanpath had returned for the complete scanpath
\* of the demos
C32_Witness ==
    /\ op = "process_sequence"
    /\ seq = complete_seq \o <<"Q", "ST">>
    /\ process_sequence(ButLast(seq)).result
    /\ ExtendsAccepted(seq)
    /\ ~result
    /\ Len(history) = Len(seq) - 1


\* the configurations a successful step() takes the configuration c to
Consumed(c) ==
    { <<r.config.current_state, r.config.stack>> :
        r \in { q \in { step(Config(c[1], c[2], <<>>), x) : x \in Symbols }
                : q.ok } }

\* the configurations reached from those of C by at most n successful steps
RECURSIVE Within(_, _)
Within(C, n) ==
    IF n = 0 THEN C
    ELSE Within(C \cup UNION {Consumed(c) : c \in C}, n - 1)

\* the least number of successful steps, at most 4, from c to qEnd/[Z0];
\* 5 if there is none
StepsToAccept(c) ==
    IF \E n \in 0..4 : <<"qEnd", <<"Z0">>>> \in Within({c}, n)
    THEN CHOOSE n \in 0..4 :
           /\ <<"qEnd", <<"Z0">>>> \in Within({c}, n)
           /\ \A m \in 0..(n - 1) : <<"qEnd", <<"Z0">>>> \notin Within({c}, m)
    ELSE 5

\* continuations of at most 4 symbols
ShortContinuations ==
    { <<"T">>, <<"T", "T">>, <<"Rh", "T", "T">>, <<"ST", "T", "T">>,
      <<"Rh", "Rh", "T", "T">>, <<"R", "Rh", "T", "T">> }

\* C33: from every reachable configuration that is not accepting, qEnd/[Z0]
\* is reached by at most 4 successful steps, so some step succeeds there
\* (only the accepting configuration is dead), and the sequence consumed so
\* far has an extension of at most 4 symbols that process_sequence accepts.
C33_AcceptanceWithinFourSteps ==
    ~accepts(pda) =>
        /\ <<"qEnd", <<"Z0">>>> \in Within({<<current_state, stack>>}, 4)
        /\ Consumed(<<current_state, stack>>) /= {}
        /\ \E e \in ShortContinuations :
              \A r \in {process_sequence(InputsOf(history) \o e)} :
                  /\ r.result
                  /\ Len(r.config.history) = Len(history) + Len(e)

\* the engine has been reset, which leaves the configuration farthest from
\* acceptance: 4 steps, Rh,Rh,T,T being accepted
C33_Witness ==
    /\ op = "reset"
    /\ seq /= <<>>
    /\ ~accepts(pda)
    /\ StepsToAccept(<<current_state, stack>>) = 4
    /\ process_sequence(<<"Rh", "Rh", "T", "T">>).result


\* C34: complete_scanpath applied to the list a complete_scanpath returned
\* returns that list again, appending nothing: the replay of a returned
\* list, failures ignored, ends in the accepting configuration or with a
\* stack of exactly [Z0], where the synthesis loop does not run.
C34_CompleteScanpathIdempotent ==
    /\ [](op = "complete_scanpath" =>
            /\ complete_scanpath(out, completion_rules).sequence = out
            /\ replay(out) = pda
            /\ accepts(pda) \/ stack = <<"Z0">>)
    /\ [][(op = "complete_scanpath" /\ op' = "complete_scanpath" /\ seq' = out) =>
            /\ out' = out
            /\ iterations' = 0
            /\ UNCHANGED pda_vars]_vars

\* complete_scanpath has been called on the list it had returned for ['R'],
\* which no caller passes at first, and has returned it unchanged
C34_Witness ==
    /\ op = "complete_scanpath"
    /\ seq = <<"R", "Rh", "Ax", "Q", "ST", "T", "Q", "ST">>
    /\ seq \notin Inputs
    /\ out = seq
    /\ iterations = 0
    /\ accepts(pda)


\* the table holds a rule for state f, input x and stack top top
InTable(f, x, top) ==
    \E i \in DOMAIN transitions : RuleIs(transitions[i], f, x, top)

====
